---------------------------- MODULE Spec2Model ----------------------------
(***************************************************************************)
(* Model of timesheet-server.js, the HTTP gateway between the browser      *)
(* extension and the upstream attendance/timesheet API.                    *)
(*                                                                         *)
(* src/timesheet-server.js holds four successive revisions of the server,  *)
(* one after the other:                                                    *)
(*   revision 1  lines    1-1050  geofence on punchIn, mock fallback       *)
(*   revision 2  lines 1051-2303  cookie-aware credentials, parseFloat     *)
(*   revision 3  lines 2304-2783  no geofence, no punchOut                 *)
(*   revision 4  lines 2784-4075  dynamic-location mode, cookie policy     *)
(* The variable "version" says which revision is running.                  *)
(*                                                                         *)
(* JavaScript strings are sequences of one-character strings; the value    *)
(* undefined is the one-element sequence Undef, which is no such sequence. *)
(* A JSON number held where a string is expected is the sequence of its    *)
(* digits after the tag "number".                                          *)
(***************************************************************************)
EXTENDS Integers, Sequences, FiniteSets, TLC

VARIABLES version, env, LOCATION_CONFIG, req, phase, creds,
          locationValidation, upstream, calls, answer, resp, responses, log

vars == <<version, env, LOCATION_CONFIG, req, phase, creds,
          locationValidation, upstream, calls, answer, resp, responses, log>>

----------------------------------------------------------------------------
(* JavaScript values                                                       *)

Undef == <<"undefined">>

\* !s for a string-or-undefined value
Truthy(s) == s # Undef /\ s # <<>>

\* a || b
Or(a, b) == IF Truthy(a) THEN a ELSE b

\* typeof s === "number"
IsNumber(s) == Len(s) > 0 /\ s[1] = "number"

\* `${s}` : the text a template literal inserts for s
Text(s) ==
  IF s = Undef THEN <<"u","n","d","e","f","i","n","e","d">>
  ELSE IF IsNumber(s) THEN Tail(s)
  ELSE s

Bearer == <<"B","e","a","r","e","r"," ">>

\* the index of the first occurrence of pat in s, 0 when there is none
IndexOf(s, pat) ==
  LET hits == {i \in 1..(Len(s) - Len(pat) + 1) :
                 SubSeq(s, i, i + Len(pat) - 1) = pat}
  IN IF hits = {} THEN 0 ELSE CHOOSE i \in hits : \A j \in hits : i <= j

Contains(s, pat) == IndexOf(s, pat) # 0

\* s.replace(pat, "") : String.prototype.replace with a string pattern
\* removes the first occurrence only
Replace(s, pat) ==
  LET i == IndexOf(s, pat)
  IN IF i = 0 THEN s
     ELSE SubSeq(s, 1, i - 1) \o SubSeq(s, i + Len(pat), Len(s))

\* the TypeError a call raises
Thrown == <<"TypeError">>

maskBelowEight(s) ==
  IF ~Truthy(s) THEN <<>>
  ELSE IF IsNumber(s) THEN Thrown
  ELSE IF Len(s) < 8 THEN <<"*","*","*","*">>
  ELSE SubSeq(s, 1, 4) \o <<".",".",".">> \o SubSeq(s, Len(s) - 3, Len(s))

\* mask: "" for a falsy s, "****" up to 8 characters, else first 4 ... last 4.
\* A number has no length (undefined <= 8 is false) and no slice: s.slice
\* raises a TypeError
mask(s) ==
  IF ~Truthy(s) THEN <<>>
  ELSE IF IsNumber(s) THEN Thrown
  ELSE IF Len(s) <= 8 THEN <<"*","*","*","*">>
  ELSE SubSeq(s, 1, 4) \o <<".",".",".">> \o SubSeq(s, Len(s) - 3, Len(s))

----------------------------------------------------------------------------
(* Requests                                                                *)
(*                                                                         *)
(* A request is a record: endpoint, method, the headers authorization,     *)
(* cookie, xUserId, xUserRole, the path parameter id, and the body fields  *)
(* bToken, bUserId, bRole, latitude, longitude (for the GET test endpoint   *)
(* latitude and longitude hold the query parameters lat and lng).          *)
(*                                                                         *)
(* The Cookie header is [present, jar]: jar is the list of its name=value   *)
(* pairs in header order.  A value is [enc, json]: enc says whether        *)
(* decodeURIComponent and JSON.parse succeed on it ("ok"), the first       *)
(* raises ("badpct"), the second raises ("badjson") or the value is the    *)
(* empty string ("empty"); json is the value JSON.parse returns:           *)
(* [t, accessToken, token, data, dAccessToken, dToken], t the JSON type,   *)
(* data the type of the member "data".                                     *)

NoCookie == [present |-> FALSE, jar |-> <<>>]

JsonObject(at, tk, data, dat, dtk) ==
  [t |-> "object", accessToken |-> at, token |-> tk,
   data |-> data, dAccessToken |-> dat, dToken |-> dtk]

CookiePair(name, enc, json) == [name |-> name, enc |-> enc, json |-> json]

\* cookies[name] after the reduce over the split header: the value of the
\* last pair of that name, Absent when no pair has it
Absent == [name |-> "", enc |-> "absent", json |-> JsonObject(Undef, Undef, "undefined", Undef, Undef)]

CookieLookup(jar, name) ==
  LET hits == {i \in 1..Len(jar) : jar[i].name = name}
  IN IF hits = {} THEN Absent
     ELSE jar[CHOOSE i \in hits : \A j \in hits : j <= i]

\* a cookie value that || passes over: no such cookie, or an empty value
Falsy(c) == c.enc \in {"absent", "empty"}

\* cookies.currentUser || cookies.user || cookies.authUser
UserCookie(jar) ==
  IF ~Falsy(CookieLookup(jar, "currentUser")) THEN CookieLookup(jar, "currentUser")
  ELSE IF ~Falsy(CookieLookup(jar, "user")) THEN CookieLookup(jar, "user")
  ELSE CookieLookup(jar, "authUser")

\* userData.data?.accessToken and userData.data?.token
DataField(j, f) ==
  IF j.data = "object" THEN (IF f = "accessToken" THEN j.dAccessToken ELSE j.dToken)
  ELSE Undef

TopLevelFirst(j) ==
  Or(Or(Or(j.accessToken, j.token), DataField(j, "accessToken")),
     DataField(j, "token"))

\* userData.accessToken || userData.data?.accessToken || userData.token
\*   || userData.data?.token
TokenOfUserData(j) ==
  Or(Or(Or(j.accessToken, DataField(j, "accessToken")), j.token),
     DataField(j, "token"))

\* the try block of extractCredentials: the token it assigns; t0 is kept
\* when JSON.parse(decodeURIComponent(...)) throws or userData is null
CookieToken(cookie, t0) ==
  LET c == UserCookie(cookie.jar)
  IN IF Falsy(c) THEN t0
     ELSE IF c.enc # "ok" THEN t0
     ELSE IF c.json.t = "null" THEN t0
     ELSE IF c.json.t # "object" THEN Undef
     ELSE TokenOfUserData(c.json)

CookieAware(v) == v \in {2, 4}

\* req.headers.authorization?.replace("Bearer ", "") || req.body?.token
HeaderOrBodyToken(r) ==
  Or(IF r.authorization = Undef THEN Undef ELSE Replace(r.authorization, Bearer),
     r.bToken)

BodyFirstToken(v, r) ==
  LET t0 == Or(r.bToken,
               IF r.authorization = Undef THEN Undef
               ELSE Replace(r.authorization, Bearer))
  IN IF CookieAware(v) /\ ~Truthy(t0) /\ r.cookie.present
     THEN CookieToken(r.cookie, t0) ELSE t0

ExtractToken(v, r) ==
  LET t0 == HeaderOrBodyToken(r)
  IN IF CookieAware(v) /\ ~Truthy(t0) /\ r.cookie.present
     THEN CookieToken(r.cookie, t0) ELSE t0

HeaderFirstUserId(r) == Or(Or(r.xUserId, r.bUserId), r.id)

\* req.params?.id || req.body?.userId || req.headers["x-user-id"]
ExtractUserId(r) == Or(Or(r.id, r.bUserId), r.xUserId)

BodyFirstRole(r) == Or(r.bRole, r.xUserRole)

\* req.headers["x-user-role"] || req.body?.role
ExtractRole(r) == Or(r.xUserRole, r.bRole)

extractCredentials(v, r) ==
  [token |-> ExtractToken(v, r), userId |-> ExtractUserId(r), role |-> ExtractRole(r)]

\* what extractCredentials writes to the log: the masked cookie token
ExtractLog(v, r) ==
  LET t0 == HeaderOrBodyToken(r)
  IN IF CookieAware(v) /\ ~Truthy(t0) /\ r.cookie.present
        /\ UserCookie(r.cookie.jar).enc = "ok"
        /\ UserCookie(r.cookie.jar).json.t = "object"
        /\ Truthy(ExtractToken(v, r))
        /\ mask(ExtractToken(v, r)) # Thrown
     THEN {[label |-> "cookie token", value |-> mask(ExtractToken(v, r))]} ELSE {}

----------------------------------------------------------------------------
(* Numbers and coordinates                                                 *)
(*                                                                         *)
(* A JavaScript number is [k, v]: k is "num" (the value is v), "NaN" or    *)
(* "Infinity".  A coordinate received in a request is [k, v]: k is         *)
(* "undefined", "number" (the number v), "decimal" (a string that is the   *)
(* decimal numeral of v) or "alpha" (a non-empty string with no numeric    *)
(* prefix) or "null".                                                      *)

Num(n) == [k |-> "num", v |-> n]
NaN == [k |-> "NaN", v |-> 0]
Infinity == [k |-> "Infinity", v |-> 0]

JUndef == [k |-> "undefined", v |-> 0]
JNumber(n) == [k |-> "number", v |-> n]
JDecimal(n) == [k |-> "decimal", v |-> n]
JAlpha == [k |-> "alpha", v |-> 0]
JNull == [k |-> "null", v |-> 0]
\* a string in hexadecimal notation ("0x1A"): arithmetic reads the number
\* n, parseFloat stops at the "x" and reads 0
JHex(n) == [k |-> "hex", v |-> n]
\* a string that starts with a number ("12abc"): arithmetic reads NaN,
\* parseFloat reads the number n
JPrefixed(n) == [k |-> "prefixed", v |-> n]

\* !!x
TruthyCoord(x) ==
  CASE x.k = "undefined" -> FALSE
    [] x.k = "null" -> FALSE
    [] x.k = "number" -> x.v # 0
    [] OTHER -> TRUE

\* the number arithmetic makes of x (ToNumber)
ToNumber(x) ==
  CASE x.k = "number" -> Num(x.v)
    [] x.k = "decimal" -> Num(x.v)
    [] x.k = "null" -> Num(0)
    [] x.k = "hex" -> Num(x.v)
    [] OTHER -> NaN

\* parseFloat(x)
parseFloat(x) ==
  CASE x.k = "number" -> Num(x.v)
    [] x.k = "decimal" -> Num(x.v)
    [] x.k = "hex" -> Num(0)
    [] x.k = "prefixed" -> Num(x.v)
    [] OTHER -> NaN

\* a <= b and a < b on JavaScript numbers: false when either is NaN
Le(a, b) ==
  /\ a.k # "NaN" /\ b.k # "NaN"
  /\ \/ b.k = "Infinity"
     \/ a.k = "num" /\ b.k = "num" /\ a.v <= b.v

Lt(a, b) ==
  /\ a.k = "num"
  /\ \/ b.k = "Infinity"
     \/ b.k = "num" /\ a.v < b.v

\* Math.round of a length held in half metres, in metres (halves round up)
Round(d) == IF d.k = "num" THEN Num((d.v + 1) \div 2) ELSE d

Abs(n) == IF n < 0 THEN -n ELSE n

\* the meridian every office of the model lies on, in degrees
Meridian == 73

\* calculateDistance.  Between two points of one meridian dLon = 0, so
\* a = sin^2(dLat/2), c = |dLat| in radians and the distance is
\* R * |dLat| * PI / 180: the length of the arc between the latitudes.
\* Latitudes are held as that arc length from the equator in half metres,
\* which makes the distance |lat2 - lat1|.  A coordinate that arithmetic
\* turns into NaN makes the distance NaN.
calculateDistance(lat1, lon1, lat2, lon2) ==
  IF ToNumber(lat1).k # "num" \/ ToNumber(lon1).k # "num" THEN NaN
  ELSE IF ToNumber(lon1).v = lon2 THEN Num(Abs(lat2 - ToNumber(lat1).v))
  ELSE CHOOSE d \in {} : TRUE   \* off the meridian: outside the model

----------------------------------------------------------------------------
(* Configuration                                                           *)
(*                                                                         *)
(* env is the process environment: lat1, radius1 (LATITUDE, RADIUS in      *)
(* revisions 1-2, DEFAULT_LATITUDE, DEFAULT_RADIUS in revision 4), lat2,   *)
(* radius2 (MUMBAI_LATITUDE, MUMBAI_RADIUS), lat3, radius3 (CURRENT_... in *)
(* revision 2, ADDITIONAL_... in revision 4), every longitude being        *)
(* Meridian;                                                               *)
(* dynamic (ALLOW_DYNAMIC_LOCATION: "unset", "true" or "false") and        *)
(* apiUrl (whether TIMESHEET_API_URL is set).  Unset is a variable that is *)
(* not set.                                                                *)

Unset == -1

\* parseFloat(process.env.X) || d
OrDefault(x, d) == IF x = Unset \/ x = 0 THEN d ELSE x

\* the radius a revision falls back on, in half metres: 1500 m for the
\* default office of revision 1, 100 m everywhere else
DefaultRadius(v, office) == IF v = 1 /\ office = 1 THEN 2 * 1500 ELSE 2 * 100

\* process.env.ALLOW_DYNAMIC_LOCATION === "true" || true
AllowDynamicLocation(e) == (e.dynamic = "true") \/ TRUE

\* LOCATION_CONFIG as the revision builds it when the process starts
LocationConfig(v, e) ==
  [DEFAULT_LATITUDE |-> IF v \in {1, 2} THEN e.lat1 ELSE 0,
   DEFAULT_RADIUS |-> IF v = 3 THEN 0 ELSE OrDefault(e.radius1, DefaultRadius(v, 1)),
   MUMBAI_LATITUDE |-> IF v \in {1, 2} THEN e.lat2 ELSE 0,
   MUMBAI_RADIUS |-> IF v \in {1, 2} THEN OrDefault(e.radius2, DefaultRadius(v, 2)) ELSE 0,
   CURRENT_LATITUDE |-> IF v = 2 THEN e.lat3 ELSE 0,
   CURRENT_RADIUS |-> IF v = 2 THEN OrDefault(e.radius3, DefaultRadius(v, 3)) ELSE 0,
   ALLOW_DYNAMIC_LOCATION |-> IF v = 4 THEN AllowDynamicLocation(e) ELSE FALSE]

Location(name, lat, radius) ==
  [name |-> name, latitude |-> lat, longitude |-> Meridian, radius |-> radius]

\* the array "locations" of validateLocation, in its order
Locations(v, cfg, e) ==
  CASE v = 1 ->
         << Location("Default Office", cfg.DEFAULT_LATITUDE, cfg.DEFAULT_RADIUS),
            Location("Mumbai Office", cfg.MUMBAI_LATITUDE, cfg.MUMBAI_RADIUS) >>
    [] v = 2 ->
         << Location("Default Office", cfg.DEFAULT_LATITUDE, cfg.DEFAULT_RADIUS),
            Location("Mumbai Office", cfg.MUMBAI_LATITUDE, cfg.MUMBAI_RADIUS),
            Location("Current Location", cfg.CURRENT_LATITUDE, cfg.CURRENT_RADIUS) >>
    [] v = 4 ->
         (IF e.lat1 # Unset
          THEN << Location("Default Office", e.lat1, cfg.DEFAULT_RADIUS) >>
          ELSE << >>)
         \o (IF e.lat2 # Unset
             THEN << Location("Mumbai Office", e.lat2,
                              OrDefault(e.radius2, cfg.DEFAULT_RADIUS)) >>
             ELSE << >>)
         \o (IF e.lat3 # Unset
             THEN << Location("Additional Office", e.lat3,
                              OrDefault(e.radius3, cfg.DEFAULT_RADIUS)) >>
             ELSE << >>)
    [] OTHER -> << >>

----------------------------------------------------------------------------
(* Geofence validation                                                     *)
(*                                                                         *)
(* A validation result is [isValid, name, distance, allowedRadius]: name   *)
(* is matchedLocation when isValid and closestLocation otherwise, distance *)
(* the reported (rounded) distance in metres, allowedRadius in half metres.*)

DistanceTo(loc, lat, lon) ==
  calculateDistance(lat, lon, loc.latitude, loc.longitude)

GenerousAdmitIndex(locs, lat, lon) ==
  LET hits == {i \in 1..Len(locs) :
                 Le(DistanceTo(locs[i], lat, lon), Num(locs[i].radius + 2))}
  IN IF hits = {} THEN 0 ELSE CHOOSE i \in hits : \A j \in hits : i <= j

\* the first loop: the index of the first location with
\* distance <= location.radius, 0 when the loop ends without returning
AdmitIndex(locs, lat, lon) ==
  LET hits == {i \in 1..Len(locs) :
                 Le(DistanceTo(locs[i], lat, lon), Num(locs[i].radius))}
  IN IF hits = {} THEN 0 ELSE CHOOSE i \in hits : \A j \in hits : i <= j

\* the second loop: closestLocation after it, as an index (0 for null).
\* distance < minDistance replaces the candidate only on a strictly
\* smaller distance, and never on NaN
RECURSIVE ClosestFrom(_, _, _, _, _, _)
ClosestFrom(locs, lat, lon, i, best, minDistance) ==
  IF i > Len(locs) THEN best
  ELSE IF Lt(DistanceTo(locs[i], lat, lon), minDistance)
       THEN ClosestFrom(locs, lat, lon, i + 1, i, DistanceTo(locs[i], lat, lon))
       ELSE ClosestFrom(locs, lat, lon, i + 1, best, minDistance)

LastClosestIndex(locs, lat, lon) ==
  LET ds == {i \in 1..Len(locs) : DistanceTo(locs[i], lat, lon).k = "num"}
      best == {i \in ds : \A j \in ds :
                 DistanceTo(locs[i], lat, lon).v <= DistanceTo(locs[j], lat, lon).v}
  IN IF best = {} THEN 0 ELSE CHOOSE i \in best : \A j \in best : j <= i

ClosestIndex(locs, lat, lon) == ClosestFrom(locs, lat, lon, 1, 0, Infinity)

Admitted(name, distance, radius) ==
  [isValid |-> TRUE, name |-> name, distance |-> distance, allowedRadius |-> radius]

Rejected(name, distance, radius) ==
  [isValid |-> FALSE, name |-> name, distance |-> distance, allowedRadius |-> radius]

\* the walk over the configured locations and the closest-location report
WalkLocations(v, cfg, locs, lat, lon) ==
  LET m == AdmitIndex(locs, lat, lon)
      c == ClosestIndex(locs, lat, lon)
  IN IF m # 0
     THEN Admitted(locs[m].name, Round(DistanceTo(locs[m], lat, lon)), locs[m].radius)
     ELSE IF c = 0
          THEN Rejected("Unknown", Round(Infinity),
                        IF v = 4 THEN cfg.DEFAULT_RADIUS ELSE 2 * 100)
          ELSE Rejected(locs[c].name, Round(DistanceTo(locs[c], lat, lon)),
                        locs[c].radius)

WalkAlways(v, cfg, e, lat, lon) ==
  WalkLocations(v, cfg, Locations(v, cfg, e), lat, lon)

validateLocation(v, cfg, e, lat, lon) ==
  IF v = 4 /\ cfg.ALLOW_DYNAMIC_LOCATION
  THEN Admitted("Dynamic Location", Num(0), cfg.DEFAULT_RADIUS)
  ELSE IF v = 4 /\ Len(Locations(v, cfg, e)) = 0
  THEN Admitted("No Office Locations Configured", Num(0), cfg.DEFAULT_RADIUS)
  ELSE WalkLocations(v, cfg, Locations(v, cfg, e), lat, lon)

----------------------------------------------------------------------------
(* Handlers                                                                *)
(*                                                                         *)
(* A handler runs without interruption up to its await of fetch, and      *)
(* from the settling of that promise to its response.  Its                 *)
(* outcome is [resp, call, validation, log]: the response it sends (kind   *)
(* "none" when it goes on to await the upstream), the upstream request it  *)
(* issues (target "none" when it issues none), the result of               *)
(* validateLocation when it called it, and the values it logs.             *)

NoValidation == [isValid |-> FALSE, name |-> "none", distance |-> NaN, allowedRadius |-> 0]

NoCreds == [token |-> Undef, userId |-> Undef, role |-> Undef]

NoCall ==
  [target |-> "none", authorization |-> Undef, xUserRole |-> Undef,
   xUserId |-> Undef, cookie |-> NoCookie, latitude |-> JUndef, longitude |-> JUndef]

NoResp == [status |-> 0, kind |-> "none", details |-> NoValidation]

NoReq ==
  [endpoint |-> "none", method |-> "GET", authorization |-> Undef,
   cookie |-> NoCookie, xUserId |-> Undef, xUserRole |-> Undef, id |-> Undef,
   bToken |-> Undef, bUserId |-> Undef, bRole |-> Undef,
   latitude |-> JUndef, longitude |-> JUndef]

Response(status, kind) == [status |-> status, kind |-> kind, details |-> NoValidation]

Outcome(rs, cl, val, lg) ==
  [resp |-> rs, call |-> cl, validation |-> val, log |-> lg]

\* one value written to the log by console.log / console.error
Entry(label, value) == [label |-> label, value |-> value]

Entries(label, values) == {Entry(label, s) : s \in values \ {Undef}}

\* the string values a Cookie header holds in clear
CookieStrings(cookie) ==
  UNION {{cookie.jar[i].json.accessToken, cookie.jar[i].json.token,
          cookie.jar[i].json.dAccessToken, cookie.jar[i].json.dToken} :
         i \in 1..Len(cookie.jar)} \ {Undef}

\* console.log("Request headers:", req.headers)
HeadersLog(r) ==
  Entries("req.headers", {r.authorization, r.xUserId, r.xUserRole} \cup CookieStrings(r.cookie))

\* console.log("Request body:", req.body)
BodyLog(r) == Entries("req.body", {r.bToken, r.bUserId, r.bRole})

\* the logger middlewares: revisions 1 and 3 log method and path only,
\* revisions 2 and 4 log the headers and the body of every request
MiddlewareLog(v, r) ==
  IF v \in {2, 4} THEN HeadersLog(r) \cup BodyLog(r) ELSE {}

\* `Bearer ${token}`
BearerOf(token) == Bearer \o Text(token)

\* if (!token) in revisions 1-3, if (!token && !req.headers.cookie) in 4
AuthFails(v, r, c) ==
  IF v = 4 THEN ~Truthy(c.token) /\ ~r.cookie.present ELSE ~Truthy(c.token)

Unauthorized == Response(401, "MissingCredentials")

\* the catch block of a handler: 500 with the text of the error
Caught == Response(500, "Exception")

\* fetch throws on the relative URL that an empty TIMESHEET_API_BASE makes
FetchThrows(e) == ~e.apiUrl

\* the headers of the upstream request of createTimesheet, getTimesheetType
\* and getAllTimesheetOfEmployee: Authorization, x-user-role when resolved
SimpleCall(target, c) ==
  [NoCall EXCEPT !.target = target,
                 !.authorization = BearerOf(c.token),
                 !.xUserRole = IF Truthy(c.role) THEN c.role ELSE Undef]

\* createTimesheet, getTimesheetType, getAllTimesheetOfEmployee up to fetch
SimpleHandler(v, e, r) ==
  LET c == extractCredentials(v, r)
      lg == MiddlewareLog(v, r) \cup ExtractLog(v, r)
  IN IF AuthFails(v, r, c) THEN Outcome(Unauthorized, NoCall, NoValidation, lg)
     ELSE IF mask(c.token) = Thrown THEN Outcome(Caught, NoCall, NoValidation, lg)
     ELSE LET lg2 == lg \cup Entries("token", {mask(c.token)})
                       \cup (IF r.endpoint = "createTimesheet"
                             THEN Entries("userId", {c.userId}) \cup BodyLog(r)
                             ELSE {})
          IN IF FetchThrows(e)
             THEN Outcome(Response(500, "Exception"), NoCall, NoValidation, lg2)
             ELSE Outcome(NoResp, SimpleCall(r.endpoint, c), NoValidation, lg2)

\* the generic proxy up to fetch; revision 4 sets Authorization only for a
\* token and forwards the Cookie header
GenericCall(v, r, c) ==
  [NoCall EXCEPT !.target = "generic",
                 !.authorization = IF v = 4 /\ ~Truthy(c.token) THEN Undef
                                   ELSE BearerOf(c.token),
                 !.cookie = IF v = 4 THEN r.cookie ELSE NoCookie,
                 !.xUserRole = IF Truthy(c.role) THEN c.role ELSE Undef]

GenericHandler(v, e, r) ==
  LET c == extractCredentials(v, r)
      lg == MiddlewareLog(v, r) \cup ExtractLog(v, r)
  IN IF AuthFails(v, r, c) THEN Outcome(Unauthorized, NoCall, NoValidation, lg)
     ELSE IF mask(c.token) = Thrown THEN Outcome(Caught, NoCall, NoValidation, lg)
     ELSE LET lg2 == lg \cup Entries("token", {mask(c.token)})
          IN IF FetchThrows(e)
             THEN Outcome(Response(500, "Exception"), NoCall, NoValidation, lg2)
             ELSE Outcome(NoResp, GenericCall(v, r, c), NoValidation, lg2)

\* what the punch handlers of revisions 1-3 log on entry; nothing when the
\* first of these calls, mask(token), raises
PunchEntryLog(v, r, c) ==
  IF v = 4 \/ mask(c.token) = Thrown THEN {}
  ELSE Entries("token", {mask(c.token)}) \cup Entries("userId", {c.userId})
       \cup Entries("role", {c.role}) \cup HeadersLog(r) \cup BodyLog(r)

\* req.body?.userId || req.headers["x-user-id"] || userId
ExtractedUserId(r, c) == Or(Or(r.bUserId, r.xUserId), c.userId)

\* JSON.stringify of a coordinate: NaN becomes null
Sent(x) == IF x.k = "num" THEN JNumber(x.v) ELSE JNull

\* the upstream punchIn / punchOut request
PunchCall(v, target, r, c, lat, lon) ==
  [target |-> target,
   authorization |-> BearerOf(c.token),
   xUserRole |-> IF Truthy(c.role) THEN c.role ELSE Undef,
   xUserId |-> IF v # 4 /\ Truthy(ExtractedUserId(r, c))
               THEN ExtractedUserId(r, c) ELSE Undef,
   cookie |-> IF v = 4 THEN r.cookie ELSE NoCookie,
   latitude |-> lat, longitude |-> lon]

\* console.log("Forwarding request to target API with headers:", headers)
CallLog(v, cl) ==
  IF v = 4 THEN {}
  ELSE Entries("upstream headers", {cl.authorization, cl.xUserRole, cl.xUserId})

LocationRejected(v, lv) ==
  [status |-> IF v = 4 THEN 400 ELSE 403, kind |-> "LocationRejected", details |-> lv]

ForwardRejected(v, lv) == NoResp

\* the response of punchIn / punchOut to a location that validateLocation
\* rejected; NoResp when the location is admitted
GeofenceResponse(v, lv) ==
  IF lv.isValid THEN NoResp ELSE LocationRejected(v, lv)

\* POST /api/v1/attendance/punchIn up to fetch
PunchInHandler(v, cfg, e, r) ==
  LET c == extractCredentials(v, r)
      lg == MiddlewareLog(v, r) \cup ExtractLog(v, r) \cup PunchEntryLog(v, r, c)
      lv == validateLocation(v, cfg, e, r.latitude, r.longitude)
      cl == PunchCall(v, "punchIn", r, c,
                      IF v = 2 THEN Sent(parseFloat(r.latitude)) ELSE r.latitude,
                      IF v = 2 THEN Sent(parseFloat(r.longitude)) ELSE r.longitude)
  IN IF v # 4 /\ mask(c.token) = Thrown THEN Outcome(Caught, NoCall, NoValidation, lg)
     ELSE IF AuthFails(v, r, c) THEN Outcome(Unauthorized, NoCall, NoValidation, lg)
     ELSE IF ~TruthyCoord(r.latitude) \/ ~TruthyCoord(r.longitude)
     THEN Outcome(Response(400, "MissingLocation"), NoCall, NoValidation, lg)
     ELSE IF v = 2 /\ (parseFloat(r.latitude).k = "NaN" \/ parseFloat(r.longitude).k = "NaN")
     THEN Outcome(Response(400, "InvalidLocation"), NoCall, NoValidation, lg)
     ELSE IF v # 3 /\ GeofenceResponse(v, lv).kind # "none"
     THEN Outcome(GeofenceResponse(v, lv), NoCall, lv, lg)
     ELSE IF v = 4 /\ mask(c.token) = Thrown THEN Outcome(Caught, NoCall, lv, lg)
     ELSE LET val == IF v = 3 THEN NoValidation ELSE lv
              lg2 == IF v = 4 THEN lg \cup Entries("token", {mask(c.token)}) ELSE lg
          IN IF v # 4 /\ ~e.apiUrl
             THEN Outcome(Response(500, "ConfigError"), NoCall, val, lg2)
             ELSE IF FetchThrows(e)
             THEN Outcome(Response(500, "Exception"), NoCall, val, lg2)
             ELSE Outcome(NoResp, cl, val, lg2 \cup CallLog(v, cl))

\* POST /api/v1/attendance/punchOut up to fetch: revisions 1 and 2 send the
\* coordinates when both are given and never validate them, revision 3 has
\* no such route, revision 4 requires and validates them
PunchOutHandler(v, cfg, e, r) ==
  LET c == extractCredentials(v, r)
      lg == MiddlewareLog(v, r) \cup ExtractLog(v, r) \cup PunchEntryLog(v, r, c)
      lv == validateLocation(v, cfg, e, r.latitude, r.longitude)
      both == TruthyCoord(r.latitude) /\ TruthyCoord(r.longitude)
      cl == PunchCall(v, "punchOut", r, c,
                      IF ~both THEN JUndef
                      ELSE IF v = 2 THEN Sent(parseFloat(r.latitude)) ELSE r.latitude,
                      IF ~both THEN JUndef
                      ELSE IF v = 2 THEN Sent(parseFloat(r.longitude)) ELSE r.longitude)
  IN IF v = 3 THEN Outcome(Response(404, "NotFound"), NoCall, NoValidation, {})
     ELSE IF v # 4 /\ mask(c.token) = Thrown THEN Outcome(Caught, NoCall, NoValidation, lg)
     ELSE IF AuthFails(v, r, c) THEN Outcome(Unauthorized, NoCall, NoValidation, lg)
     ELSE IF v # 4
     THEN IF ~e.apiUrl
          THEN Outcome(Response(500, "ConfigError"), NoCall, NoValidation, lg)
          ELSE Outcome(NoResp, cl, NoValidation, lg \cup CallLog(v, cl))
     ELSE IF ~both
     THEN Outcome(Response(400, "MissingLocation"), NoCall, NoValidation, lg)
     ELSE IF GeofenceResponse(v, lv).kind # "none"
     THEN Outcome(GeofenceResponse(v, lv), NoCall, lv, lg)
     ELSE IF mask(c.token) = Thrown THEN Outcome(Caught, NoCall, lv, lg)
     ELSE LET lg2 == lg \cup Entries("token", {mask(c.token)})
          IN IF FetchThrows(e)
             THEN Outcome(Response(500, "Exception"), NoCall, lv, lg2)
             ELSE Outcome(NoResp, cl, lv, lg2)

\* GET /test-location-validation: lat and lng are query strings; the route
\* does not exist in revision 3
TestLocationHandler(v, cfg, e, r) ==
  IF v = 3 THEN Outcome(Response(404, "NotFound"), NoCall, NoValidation, {})
  ELSE IF ~TruthyCoord(r.latitude) \/ ~TruthyCoord(r.longitude)
  THEN Outcome(Response(400, "MissingLocation"), NoCall, NoValidation, MiddlewareLog(v, r))
  ELSE IF parseFloat(r.latitude).k = "NaN" \/ parseFloat(r.longitude).k = "NaN"
  THEN Outcome(Response(400, "InvalidLocation"), NoCall, NoValidation, MiddlewareLog(v, r))
  ELSE LET lv == validateLocation(v, cfg, e, Sent(parseFloat(r.latitude)),
                                  Sent(parseFloat(r.longitude)))
       IN Outcome([status |-> 200, kind |-> "TestResult", details |-> lv],
                  NoCall, lv, MiddlewareLog(v, r))

MockEveryFailure(v, endpoint, s) ==
  LET ok == s >= 200 /\ s <= 299
      mock == v = 1 /\ endpoint \in {"punchIn", "punchOut"}
      passes == endpoint = "generic" \/ (v = 2 /\ endpoint \in {"punchIn", "punchOut"})
  IN IF endpoint = "generic" THEN Response(s, IF ok THEN "Success" ELSE "UpstreamError")
     ELSE IF ~ok THEN (IF mock THEN Response(200, "Mock") ELSE Response(s, "UpstreamError"))
     ELSE Response(IF passes THEN s ELSE 200, "Success")

\* the response sent once fetch has resolved with the upstream status s
Completion(v, endpoint, s) ==
  LET ok == s >= 200 /\ s <= 299
      mock == v = 1 /\ endpoint \in {"punchIn", "punchOut"} /\ s \in {400, 403}
      passes == endpoint = "generic" \/ (v = 2 /\ endpoint \in {"punchIn", "punchOut"})
  IN IF endpoint = "generic" THEN Response(s, IF ok THEN "Success" ELSE "UpstreamError")
     ELSE IF ~ok THEN (IF mock THEN Response(200, "Mock") ELSE Response(s, "UpstreamError"))
     ELSE Response(IF passes THEN s ELSE 200, "Success")

\* how the promise of fetch settles: not yet, with a response of the
\* upstream (its status, and whether its body is JSON), or rejected
NoAnswer == [kind |-> "none", status |-> 0, json |-> TRUE]

Answered(s, json) == [kind |-> "response", status |-> s, json |-> json]

Rejection == [kind |-> "rejected", status |-> 0, json |-> TRUE]

SwallowRejection(v, endpoint, a) ==
  IF a.kind = "rejected" THEN Response(200, "Success")
  ELSE IF ~a.json /\ a.status >= 200 /\ a.status <= 299 THEN Caught
  ELSE Completion(v, endpoint, a.status)

\* the rest of a handler once fetch has settled with a: the catch block
\* when fetch rejected or response.json() raises, else the response for
\* the status; the body is read as text for a failure status
Continuation(v, endpoint, a) ==
  IF a.kind = "rejected" THEN Caught
  ELSE IF ~a.json /\ a.status >= 200 /\ a.status <= 299 THEN Caught
  ELSE Completion(v, endpoint, a.status)

----------------------------------------------------------------------------
(* Inputs                                                                  *)

\* the largest latitude a request reports, in half metres from the equator
MaxPoint == 8

TokA == <<"a","b","c","d","e","f","g","h","i">>
TokB == <<"x","y">>
TokC == <<"b","o","d","y">>
TokD == <<"c","o","o","k","i","e","j","w","t","1">>

AuthHeaders == {Undef, <<>>, Bearer \o TokA, TokB}

BodyTokens == {Undef, TokC}

SessionCookie ==
  [present |-> TRUE,
   jar |-> << CookiePair("currentUser", "ok",
                         JsonObject(TokD, Undef, "undefined", Undef, Undef)) >>]

OtherCookie ==
  [present |-> TRUE,
   jar |-> << CookiePair("theme", "badjson",
                         JsonObject(Undef, Undef, "undefined", Undef, Undef)) >>]

Cookies == {NoCookie, SessionCookie, OtherCookie}

TokE == <<"d","a","t","a","A","T">>
TokF == <<"t","o","p","T">>
TokG == <<"d","a","t","a","T">>
TokH == <<"u","s","e","r","c","o","o","k","i","e","9">>
TokI == <<"e","i","g","h","t","c","h","r">>
NumTok == <<"number","1","2","3","4","5">>

NoFields == JsonObject(Undef, Undef, "undefined", Undef, Undef)

\* what JSON.parse returns for the cookie values of the model: objects with
\* every choice of token members, an object whose accessToken is the number
\* 12345, an object whose data is a string, and values that are no objects
UserDatas ==
  {JsonObject(TokD, TokF, "object", TokE, TokG),
   JsonObject(Undef, TokF, "object", TokE, TokG),
   JsonObject(Undef, TokF, "object", Undef, TokG),
   JsonObject(Undef, Undef, "object", Undef, TokG),
   JsonObject(Undef, Undef, "string", Undef, Undef),
   JsonObject(NumTok, Undef, "undefined", Undef, Undef),
   NoFields,
   [NoFields EXCEPT !.t = "null"],
   [NoFields EXCEPT !.t = "number"],
   [NoFields EXCEPT !.t = "string"]}

OfUser == CookiePair("user", "ok", JsonObject(TokH, Undef, "undefined", Undef, Undef))

\* Cookie headers: one session cookie of each content, of each way not to
\* decode or parse, and headers with several of the three cookie names
Jars ==
  {<< CookiePair("currentUser", "ok", j) >> : j \in UserDatas}
  \cup {<< CookiePair(n, enc, NoFields) >> :
          n \in {"currentUser", "authUser"}, enc \in {"badpct", "badjson", "empty"}}
  \cup {<< OfUser, CookiePair("currentUser", "ok", j) >> :
          j \in {JsonObject(TokD, TokF, "object", TokE, TokG), NoFields}}
  \cup {<< CookiePair("authUser", "ok", JsonObject(Undef, TokF, "undefined", Undef, Undef)),
            OfUser >>,
         << CookiePair("authUser", "ok", JsonObject(Undef, TokF, "undefined", Undef, Undef)) >>,
         << CookiePair("currentUser", "ok", JsonObject(TokI, Undef, "undefined", Undef, Undef)) >>,
         << CookiePair("currentUser", "empty", NoFields), OfUser >>,
         << CookiePair("currentUser", "badjson", NoFields), OfUser >>,
         << CookiePair("currentUser", "ok", JsonObject(TokD, Undef, "undefined", Undef, Undef)),
            CookiePair("currentUser", "ok", JsonObject(TokH, Undef, "undefined", Undef, Undef)) >>}

RichCookies == {[present |-> TRUE, jar |-> jar] : jar \in Jars}

NumberCookie ==
  [present |-> TRUE,
   jar |-> << CookiePair("currentUser", "ok",
                         JsonObject(NumTok, Undef, "undefined", Undef, Undef)) >>]

UserIds == {Undef, <<"7">>}
HeaderUserIds == {Undef, <<"8">>}
Roles == {Undef, <<"h","r">>}
BodyRoles == {Undef, <<"e","m","p">>}

Latitudes ==
  {JUndef, JNumber(0), JAlpha} \cup {JNumber(i) : i \in 1..MaxPoint}

\* the coordinate pairs of the punch requests: every latitude on the
\* meridian of the offices, and one latitude with the other longitudes
Coordinates ==
  {<<lat, JNumber(Meridian)>> : lat \in Latitudes}
  \cup {<<JNumber(2), lon>> : lon \in {JUndef, JNumber(0), JAlpha}}
  \cup {<<JHex(2), JHex(Meridian)>>, <<JPrefixed(2), JNumber(Meridian)>>}

\* the query strings of the test endpoint
QueryCoordinates ==
  {<<lat, JDecimal(Meridian)>> : lat \in {JUndef, JAlpha} \cup {JDecimal(i) : i \in 0..MaxPoint}}

\* the identity fields of a request: x-user-id, x-user-role, body userId,
\* body role
Identities ==
  {<<hu, hr, bu, br>> : hu \in HeaderUserIds, hr \in Roles, bu \in UserIds, br \in BodyRoles}

HeaderIdentities == {i \in Identities : i[3] = Undef /\ i[4] = Undef}

\* the identities of the punch requests: none, headers, body, both
PunchIdentities ==
  {i \in Identities : (i[1] = Undef <=> i[2] = Undef) /\ (i[3] = Undef <=> i[4] = Undef)}

\* requests without a body
GetRequests(endpoint, ids) ==
  {[endpoint |-> endpoint, method |-> "GET", authorization |-> a, cookie |-> c,
    xUserId |-> i[1], xUserRole |-> i[2], id |-> id,
    bToken |-> Undef, bUserId |-> Undef, bRole |-> Undef,
    latitude |-> JUndef, longitude |-> JUndef] :
   a \in AuthHeaders, c \in Cookies, i \in HeaderIdentities, id \in ids}

\* requests with a JSON body
PostRequests(endpoint, auths, identities, coords) ==
  {[endpoint |-> endpoint, method |-> "POST", authorization |-> a, cookie |-> c,
    xUserId |-> i[1], xUserRole |-> i[2], id |-> Undef,
    bToken |-> bt, bUserId |-> i[3], bRole |-> i[4],
    latitude |-> p[1], longitude |-> p[2]] :
   a \in auths, c \in Cookies, bt \in BodyTokens, i \in identities, p \in coords}

PunchRequests(endpoint) ==
  PostRequests(endpoint, {Undef, Bearer \o TokA}, PunchIdentities, Coordinates)
  \cup {[NoReq EXCEPT !.endpoint = endpoint, !.method = "POST", !.cookie = NumberCookie,
                      !.latitude = JNumber(2), !.longitude = JNumber(Meridian)]}

\* requests whose only credentials are in the Cookie header
CookieRequests(endpoint) ==
  {[NoReq EXCEPT !.endpoint = endpoint, !.cookie = c, !.authorization = a] :
   c \in RichCookies, a \in {Undef, Bearer}}

TestRequests ==
  {[NoReq EXCEPT !.endpoint = "testLocation", !.latitude = p[1], !.longitude = p[2]] :
   p \in QueryCoordinates}

\* the environments a revision is started in.  Revisions 1 and 2 read
\* every office from the environment, revision 3 has no geofence,
\* revision 4 has an office for each latitude that is set
Geometries(v) ==
  CASE v \in {1, 2} ->
         {[lat1 |-> 2, radius1 |-> r1, lat2 |-> l2, radius2 |-> 1,
           lat3 |-> IF v = 2 THEN 2 * l2 ELSE Unset, radius3 |-> 2] :
          r1 \in {Unset, 1, 3}, l2 \in {2, 6}}
    [] v = 3 ->
         {[lat1 |-> Unset, radius1 |-> Unset, lat2 |-> Unset, radius2 |-> Unset,
           lat3 |-> Unset, radius3 |-> Unset]}
    [] OTHER ->
         {[lat1 |-> l1, radius1 |-> IF l1 = Unset THEN Unset ELSE 1,
           lat2 |-> IF l1 = Unset THEN Unset ELSE 6, radius2 |-> Unset,
           lat3 |-> Unset, radius3 |-> Unset] : l1 \in {Unset, 2}}

Dynamics(v) == IF v = 4 THEN {"unset", "true", "false"} ELSE {"unset"}

Environments(v) ==
  {e \in
     {[lat1 |-> g.lat1, radius1 |-> g.radius1, lat2 |-> g.lat2, radius2 |-> g.radius2,
       lat3 |-> g.lat3, radius3 |-> g.radius3, dynamic |-> d, apiUrl |-> u] :
      g \in Geometries(v), d \in Dynamics(v), u \in BOOLEAN} :
   e.apiUrl \/ (e.radius1 = Unset /\ e.lat2 # 6 /\ e.dynamic = "unset")}

----------------------------------------------------------------------------
(* The server                                                              *)

Init ==
  /\ version \in 1..4
  /\ env \in Environments(version)
  /\ LOCATION_CONFIG = LocationConfig(version, env)
  /\ req = NoReq
  /\ phase = "idle"
  /\ creds = NoCreds
  /\ locationValidation = NoValidation
  /\ upstream = NoCall
  /\ calls = 0
  /\ answer = NoAnswer
  /\ resp = NoResp
  /\ responses = 0
  /\ log = {}

HandleAndRemember(r, out) ==
  /\ req' = r
  /\ creds' = IF r.endpoint = "testLocation" \/ out.resp.kind = "NotFound"
              THEN NoCreds
              ELSE extractCredentials(version, r)
  /\ locationValidation' = out.validation
  /\ upstream' = out.call
  /\ calls' = IF out.call.target = "none" THEN 0 ELSE 1
  /\ answer' = NoAnswer
  /\ resp' = out.resp
  /\ responses' = IF out.resp.kind = "none" THEN 0 ELSE 1
  /\ phase' = IF out.resp.kind = "none" THEN "awaiting" ELSE "done"
  /\ log' = out.log
  /\ LOCATION_CONFIG' =
       IF out.validation.isValid /\ ToNumber(r.latitude).k = "num"
       THEN [LOCATION_CONFIG EXCEPT !.DEFAULT_LATITUDE = ToNumber(r.latitude).v]
       ELSE LOCATION_CONFIG
  /\ UNCHANGED <<version, env>>

\* a request arrives and its handler runs up to its response or its await
Handle(r, out) ==
  /\ req' = r
  /\ creds' = IF r.endpoint = "testLocation" \/ out.resp.kind = "NotFound"
              THEN NoCreds
              ELSE extractCredentials(version, r)
  /\ locationValidation' = out.validation
  /\ upstream' = out.call
  /\ calls' = IF out.call.target = "none" THEN 0 ELSE 1
  /\ answer' = NoAnswer
  /\ resp' = out.resp
  /\ responses' = IF out.resp.kind = "none" THEN 0 ELSE 1
  /\ phase' = IF out.resp.kind = "none" THEN "awaiting" ELSE "done"
  /\ log' = out.log
  /\ UNCHANGED <<version, env, LOCATION_CONFIG>>

CreateTimesheet ==
  /\ phase = "idle"
  /\ \E r \in PostRequests("createTimesheet", AuthHeaders, Identities, {<<JUndef, JUndef>>}) :
    Handle(r, SimpleHandler(version, env, r))

GetTimesheetType ==
  /\ phase = "idle"
  /\ \E r \in GetRequests("getTimesheetType", {Undef})
            \cup CookieRequests("getTimesheetType") :
    Handle(r, SimpleHandler(version, env, r))

GetAllTimesheetOfEmployee ==
  /\ phase = "idle"
  /\ \E r \in GetRequests("getAllTimesheetOfEmployee", {<<"4","2">>}) :
    Handle(r, SimpleHandler(version, env, r))

PunchIn ==
  /\ phase = "idle"
  /\ \E r \in PunchRequests("punchIn") :
    Handle(r, PunchInHandler(version, LOCATION_CONFIG, env, r))

PunchOut ==
  /\ phase = "idle"
  /\ \E r \in PunchRequests("punchOut") :
    Handle(r, PunchOutHandler(version, LOCATION_CONFIG, env, r))

GenericProxy ==
  /\ phase = "idle"
  /\ \E r \in GetRequests("generic", {Undef})
            \cup PostRequests("generic", AuthHeaders, Identities, {<<JUndef, JUndef>>})
            \cup CookieRequests("generic") :
    Handle(r, GenericHandler(version, env, r))

TestLocationValidation ==
  /\ phase = "idle"
  /\ \E r \in TestRequests :
    Handle(r, TestLocationHandler(version, LOCATION_CONFIG, env, r))

Statuses == {200, 201, 400, 403, 500}

\* the answers of the upstream: every status with a JSON body, and a 200
\* whose body is no JSON
Answers == {Answered(st, TRUE) : st \in Statuses} \cup {Answered(200, FALSE)}

\* the upstream answers and the promise of fetch resolves
FetchResolve ==
  /\ phase = "awaiting"
  /\ \E a \in Answers : answer' = a
  /\ phase' = "settled"
  /\ UNCHANGED <<version, env, LOCATION_CONFIG, req, creds, locationValidation,
                 upstream, calls, resp, responses, log>>

\* the call fails at transport level and the promise of fetch rejects
FetchReject ==
  /\ phase = "awaiting"
  /\ answer' = Rejection
  /\ phase' = "settled"
  /\ UNCHANGED <<version, env, LOCATION_CONFIG, req, creds, locationValidation,
                 upstream, calls, resp, responses, log>>

RespondOrRetry ==
  /\ phase = "settled"
  /\ IF answer.kind = "rejected" /\ calls < 2
     THEN /\ calls' = calls + 1
          /\ answer' = NoAnswer
          /\ phase' = "awaiting"
          /\ UNCHANGED <<resp, responses>>
     ELSE /\ resp' = Continuation(version, req.endpoint, answer)
          /\ responses' = responses + 1
          /\ phase' = "done"
          /\ UNCHANGED <<calls, answer>>
  /\ UNCHANGED <<version, env, LOCATION_CONFIG, req, creds, locationValidation,
                 upstream, log>>

RespondWithoutReturn ==
  /\ phase = "settled"
  /\ resp' = Continuation(version, req.endpoint, answer)
  /\ responses' = IF resp'.status >= 400 THEN responses + 2 ELSE responses + 1
  /\ phase' = "done"
  /\ UNCHANGED <<version, env, LOCATION_CONFIG, req, creds, locationValidation,
                 upstream, calls, answer, log>>

\* the handler resumes after await fetch and sends its response
Respond ==
  /\ phase = "settled"
  /\ resp' = Continuation(version, req.endpoint, answer)
  /\ responses' = responses + 1
  /\ phase' = "done"
  /\ UNCHANGED <<version, env, LOCATION_CONFIG, req, creds, locationValidation,
                 upstream, calls, answer, log>>

\* the exchange is over; the next request finds nothing of it
Close ==
  /\ phase = "done"
  /\ req' = NoReq
  /\ phase' = "idle"
  /\ creds' = NoCreds
  /\ locationValidation' = NoValidation
  /\ upstream' = NoCall
  /\ calls' = 0
  /\ answer' = NoAnswer
  /\ resp' = NoResp
  /\ responses' = 0
  /\ log' = {}
  /\ UNCHANGED <<version, env, LOCATION_CONFIG>>

Next ==
  \/ CreateTimesheet
  \/ GetTimesheetType
  \/ GetAllTimesheetOfEmployee
  \/ PunchIn
  \/ PunchOut
  \/ GenericProxy
  \/ TestLocationValidation
  \/ FetchResolve
  \/ FetchReject
  \/ Respond
  \/ Close

Spec == Init /\ [][Next]_vars

\* the event loop runs a handler that can resume, and ends an exchange that
\* was answered; nothing obliges the upstream to answer
FairSpec == Spec /\ WF_vars(Respond) /\ WF_vars(Close)

----------------------------------------------------------------------------
(* Properties                                                              *)

\* a handler has run for req
Handled == phase # "idle"

\* the route of req exists in the running revision
Routed == ~(version = 3 /\ req.endpoint \in {"punchOut", "testLocation"})

AuthEndpoints ==
  {"createTimesheet", "getTimesheetType", "getAllTimesheetOfEmployee",
   "punchIn", "punchOut", "generic"}

OfficeNames ==
  {"Default Office", "Mumbai Office", "Current Location", "Additional Office"}

MarkerNames == {"Dynamic Location", "No Office Locations Configured"}

\* the locations validateLocation walks in the running server
Offices == Locations(version, LOCATION_CONFIG, env)

\* the coordinates the handler of req passes to validateLocation
PointLat ==
  IF req.endpoint = "testLocation" THEN Sent(parseFloat(req.latitude)) ELSE req.latitude

PointLon ==
  IF req.endpoint = "testLocation" THEN Sent(parseFloat(req.longitude)) ELSE req.longitude

\* the handler of req called validateLocation
Validated == Handled /\ locationValidation # NoValidation

\* the point is a pair of numbers
NumericPoint == ToNumber(PointLat).k = "num" /\ ToNumber(PointLon).k = "num"

OfficeDistance(i) == DistanceTo(Offices[i], PointLat, PointLon)

Inside(i) == Le(OfficeDistance(i), Num(Offices[i].radius))

\* the configuration asks for the geofence: at least one office, and
\* ALLOW_DYNAMIC_LOCATION is not "true"
GeofenceConfigured == Len(Offices) > 0 /\ env.dynamic # "true"

\* C1: on every endpoint that requires authentication, a request for which
\* extractCredentials yields no token is answered 401 and causes no
\* upstream request.
C1_NoTokenIsRefused ==
  (Handled /\ Routed /\ req.endpoint \in AuthEndpoints /\ ~Truthy(creds.token))
    => (resp.status = 401 /\ calls = 0 /\ upstream = NoCall)

\* C2: a punch-in request that passed the token check and the coordinate
\* check and that validateLocation rejects is answered with the
\* location-rejected failure carrying the closest location, the distance
\* and the allowed radius of that result, and causes no upstream request.
C2_RejectedIsLocal ==
  (/\ Handled /\ req.endpoint = "punchIn" /\ version # 3
   /\ ~AuthFails(version, req, creds)
   /\ TruthyCoord(req.latitude) /\ TruthyCoord(req.longitude)
   /\ (version = 2 => parseFloat(req.latitude).k = "num" /\ parseFloat(req.longitude).k = "num")
   /\ ~validateLocation(version, LOCATION_CONFIG, env, req.latitude, req.longitude).isValid)
    => /\ resp.kind = "LocationRejected"
       /\ resp.status \in {400, 403}
       /\ resp.details =
            validateLocation(version, LOCATION_CONFIG, env, req.latitude, req.longitude)
       /\ calls = 0 /\ upstream = NoCall

C2_Witness ==
  /\ phase = "done" /\ req.endpoint = "punchIn"
  /\ resp.kind = "LocationRejected" /\ resp.details.name \in OfficeNames
  /\ resp.details.distance = Num(2) /\ calls = 0

\* C3: with the dynamic-location flag configured off (ALLOW_DYNAMIC_LOCATION
\* other than "true") and at least one office configured, validateLocation
\* rejects every point that lies outside every configured office.
C3_FlagOffRejectsOutside ==
  (/\ Validated /\ env.dynamic # "true" /\ Len(Offices) > 0 /\ NumericPoint
   /\ \A i \in 1..Len(Offices) : ~Inside(i))
    => ~locationValidation.isValid

\* C4: when the geofence is configured, validateLocation admits a point with
\* the first location, in configured order, whose distance from the point is
\* at most its radius (a distance equal to the radius included), and reports
\* that location and the distance to it.
C4_FirstMatchAdmits ==
  (Validated /\ GeofenceConfigured /\ NumericPoint)
    => \A i \in 1..Len(Offices) :
         (Inside(i) /\ \A j \in 1..(i - 1) : ~Inside(j))
           => /\ locationValidation.isValid
              /\ locationValidation.name = Offices[i].name
              /\ locationValidation.distance = Round(OfficeDistance(i))
              /\ locationValidation.allowedRadius = Offices[i].radius

\* a point on the boundary of the first location and inside a later one
C4_Witness ==
  /\ Validated /\ GeofenceConfigured /\ NumericPoint /\ Len(Offices) >= 2
  /\ OfficeDistance(1) = Num(Offices[1].radius)
  /\ Inside(2) /\ Offices[1].latitude # Offices[2].latitude
  /\ locationValidation.isValid
  /\ locationValidation.name = Offices[1].name

\* C5: when the geofence is configured, a point outside every location is
\* rejected; the reported distance is the (rounded) minimum over all
\* locations, closestLocation is a location at that minimum and
\* allowedRadius is its radius.
C5_RejectedReportsClosest ==
  (/\ Validated /\ GeofenceConfigured /\ NumericPoint
   /\ \A i \in 1..Len(Offices) : ~Inside(i))
    => /\ ~locationValidation.isValid
       /\ \E i \in 1..Len(Offices) :
            /\ \A j \in 1..Len(Offices) : OfficeDistance(i).v <= OfficeDistance(j).v
            /\ locationValidation.name = Offices[i].name
            /\ locationValidation.distance = Round(OfficeDistance(i))
            /\ locationValidation.allowedRadius = Offices[i].radius

\* a rejected point whose closest location is not the last one configured
C5_Witness ==
  /\ Validated /\ GeofenceConfigured /\ NumericPoint
  /\ ~locationValidation.isValid
  /\ locationValidation.name = Offices[1].name
  /\ OfficeDistance(1).v < OfficeDistance(Len(Offices)).v

\* C6: in revision 4, when ALLOW_DYNAMIC_LOCATION is "true" or no office is
\* configured, validateLocation admits every coordinate pair with distance
\* 0 and a marker name, never the name of an office.
C6_DegenerateAdmits ==
  (Validated /\ version = 4 /\ (env.dynamic = "true" \/ Len(Offices) = 0))
    => /\ locationValidation.isValid
       /\ locationValidation.distance = Num(0)
       /\ locationValidation.name \in MarkerNames
       /\ locationValidation.name \notin OfficeNames

\* the flag is on, offices are configured and the point is outside them
C6_Witness ==
  /\ Validated /\ version = 4 /\ env.dynamic = "true" /\ Len(Offices) > 0
  /\ NumericPoint /\ \A i \in 1..Len(Offices) : ~Inside(i)
  /\ locationValidation = Admitted("Dynamic Location", Num(0), LOCATION_CONFIG.DEFAULT_RADIUS)

\* the tokens req carries: in the Authorization header, in the body, in the
\* session cookie, and the one sent upstream
CarriedTokens ==
  {t \in {IF req.authorization = Undef THEN Undef ELSE Replace(req.authorization, Bearer),
           req.bToken, creds.token} \cup CookieStrings(req.cookie) : Truthy(t)}

\* C7: no log entry contains the raw value of a token carried by the
\* request.
C7_NoRawTokenInLog ==
  \A entry \in log : \A t \in CarriedTokens : ~Contains(entry.value, t)

\* the header value without its "Bearer " prefix
Unprefixed(h) ==
  IF h = Undef THEN Undef
  ELSE IF Len(h) >= Len(Bearer) /\ SubSeq(h, 1, Len(Bearer)) = Bearer
       THEN SubSeq(h, Len(Bearer) + 1, Len(h))
       ELSE h

Resolved == Handled /\ Routed /\ req.endpoint \in AuthEndpoints

C9_UserIdOrder ==
  Resolved =>
    IF Truthy(req.id) THEN creds.userId = req.id
    ELSE IF Truthy(req.bUserId) THEN creds.userId = req.bUserId
    ELSE IF Truthy(req.xUserId) THEN creds.userId = req.xUserId
    ELSE ~Truthy(creds.userId)

C9_Witness ==
  /\ Resolved /\ Truthy(req.bUserId) /\ Truthy(req.xUserId)
  /\ creds.userId = req.bUserId /\ req.bUserId # req.xUserId

\* C10: role is the x-user-role header when present, else the body role,
\* else absent.
C10_RoleOrder ==
  Resolved =>
    IF Truthy(req.xUserRole) THEN creds.role = req.xUserRole
    ELSE IF Truthy(req.bRole) THEN creds.role = req.bRole
    ELSE ~Truthy(creds.role)

C10_Witness ==
  /\ Resolved /\ Truthy(req.xUserRole) /\ Truthy(req.bRole)
  /\ creds.role = req.xUserRole /\ req.bRole # req.xUserRole

\* the request has no token in its Authorization header or body, has a
\* Cookie header, and the running revision reads cookies
CookieConsulted ==
  /\ Resolved /\ CookieAware(version) /\ req.cookie.present
  /\ ~Truthy(Unprefixed(req.authorization)) /\ ~Truthy(req.bToken)

\* the value of the cookie named n: that of its last pair in the header
Valued(n) ==
  {i \in 1..Len(req.cookie.jar) :
     /\ req.cookie.jar[i].name = n
     /\ \A j \in (i + 1)..Len(req.cookie.jar) : req.cookie.jar[j].name # n
     /\ req.cookie.jar[i].enc # "empty"}

\* the session cookie: currentUser, else user, else authUser
Session ==
  IF Valued("currentUser") # {} THEN Valued("currentUser")
  ELSE IF Valued("user") # {} THEN Valued("user")
  ELSE Valued("authUser")

CookieFails ==
  \E i \in Session :
    LET c == req.cookie.jar[i]
    IN \/ c.enc # "ok"
       \/ c.json.t # "object"
       \/ \E t \in {c.json.accessToken, c.json.token, c.json.dAccessToken, c.json.dToken} :
            IsNumber(t)

\* C12: whenever handling of the session cookie fails, the token that
\* extractCredentials returns is absent.
C12_FailedCookieGivesNoToken ==
  (CookieConsulted /\ CookieFails) => ~Truthy(creds.token)

\* handling fails on a value that does not parse and the token is absent
C12_Witness ==
  /\ CookieConsulted /\ CookieFails /\ ~Truthy(creds.token)
  /\ \E i \in Session : req.cookie.jar[i].enc = "badjson"

\* a coordinate that is absent or is no number
NonNumeric(x) == x.k \in {"undefined", "null", "alpha"}

\* C13: a punch-in request with a token whose latitude or longitude is
\* absent or non-numeric is answered 400 by the gateway itself, without
\* validateLocation being called and without an upstream request.
C13_MissingLocationIsLocal ==
  (/\ Handled /\ req.endpoint = "punchIn" /\ Truthy(creds.token)
   /\ (NonNumeric(req.latitude) \/ NonNumeric(req.longitude)))
    => /\ resp.status = 400
       /\ resp.kind \in {"MissingLocation", "InvalidLocation"}
       /\ locationValidation = NoValidation
       /\ calls = 0 /\ upstream = NoCall

\* a latitude that is a non-numeric string is refused with 400
C13_Witness ==
  /\ Handled /\ req.endpoint = "punchIn" /\ Truthy(creds.token)
  /\ req.latitude = JAlpha /\ resp.status = 400 /\ calls = 0

\* C14: with the geofence configured, a punch-out request whose
\* coordinates lie outside every office causes no upstream request.
C14_PunchOutIsGeofenced ==
  (/\ Handled /\ req.endpoint = "punchOut" /\ GeofenceConfigured
   /\ TruthyCoord(req.latitude) /\ TruthyCoord(req.longitude)
   /\ NumericPoint /\ ToNumber(PointLon) = Num(Meridian)
   /\ \A i \in 1..Len(Offices) : ~Inside(i))
    => (calls = 0 /\ upstream = NoCall)

\* the upstream answered with a status and a JSON body
Relayed == phase = "done" /\ answer.kind = "response" /\ answer.json

\* C15: when the upstream answered a forwarded request and no mock response
\* is substituted, the status of the response to the caller is the status
\* of the upstream.
C15_StatusPassesThrough ==
  (Relayed /\ resp.kind # "Mock") => resp.status = answer.status

\* the handlers that implement the mock fallback: punchIn and punchOut of
\* revision 1
Mocking == version = 1 /\ req.endpoint \in {"punchIn", "punchOut"}

\* C16: a mock success is sent exactly when the upstream of a mocking
\* handler answered 400 or 403, only for a request with a token (and, for
\* punchIn, an admitted location); every other failure status of the
\* upstream is relayed with that status.
C16_MockOnlyFor400And403 ==
  /\ resp.kind = "Mock" =>
       /\ Mocking /\ answer.kind = "response" /\ answer.status \in {400, 403}
       /\ resp.status = 200
       /\ Truthy(creds.token)
       /\ req.endpoint = "punchIn" => locationValidation.isValid
  /\ (phase = "done" /\ Mocking /\ answer.kind = "response") =>
       /\ answer.status \in {400, 403} => resp.kind = "Mock"
       /\ (answer.status \notin {400, 403} /\ answer.status > 299) =>
            (resp.kind = "UpstreamError" /\ resp.status = answer.status)

\* punchIn answers a 403 of the upstream with the mock success
C16_Witness ==
  /\ phase = "done" /\ req.endpoint = "punchIn" /\ answer = Answered(403, TRUE)
  /\ resp = Response(200, "Mock") /\ locationValidation.isValid

\* C17: a request whose handler awaits the upstream is eventually answered,
\* whether or not the upstream answers.
C17_UpstreamCallIsTimeBounded == (phase = "awaiting") ~> (responses > 0)

\* C18: a request causes at most one upstream request, whatever the
\* outcome of that request.
C18_NoRetries == calls <= 1 /\ (answer # NoAnswer => calls = 1)

\* the upstream call of a forwarded request was rejected and answered
C18_Witness ==
  /\ phase = "done" /\ answer = Rejection /\ calls = 1 /\ upstream.target # "none"

\* C19: the upstream punchIn request carries Authorization "Bearer " and
\* the resolved token, x-user-role when a role was resolved, x-user-id when
\* a userId was resolved, and the coordinates of the request.
C19_UpstreamPunchInRequest ==
  upstream.target = "punchIn" =>
    /\ upstream.authorization = Bearer \o creds.token
    /\ Truthy(creds.role) => upstream.xUserRole = creds.role
    /\ Truthy(creds.userId) => upstream.xUserId = creds.userId
    /\ ToNumber(upstream.latitude) = ToNumber(req.latitude)
    /\ ToNumber(upstream.longitude) = ToNumber(req.longitude)

\* a punch-in request was forwarded with its token, role and user id
C19_Witness ==
  /\ upstream.target = "punchIn" /\ Truthy(creds.role) /\ Truthy(creds.userId)
  /\ upstream.authorization = Bearer \o TokA
  /\ upstream.xUserId = creds.userId /\ upstream.xUserRole = creds.role

\* C20: when fetch rejects, the caller gets the 500 of the catch block, no
\* other response, and does get it.
C20_TransportFailureIsReported ==
  /\ [](answer = Rejection => (resp \in {NoResp, Caught} /\ responses <= 1))
  /\ (answer = Rejection) ~> (resp = Caught /\ responses = 1)

\* the upstream call of punchIn was rejected and the caller got the 500
C20_Witness ==
  /\ phase = "done" /\ req.endpoint = "punchIn" /\ answer = Rejection
  /\ resp = Caught /\ responses = 1

\* the point lies on the meridian of the offices
OnMeridian == ToNumber(PointLon) = Num(Meridian)

\* the first office, in configured order, whose centre is the point
AtCentre(i) ==
  /\ ToNumber(PointLat) = Num(Offices[i].latitude)
  /\ \A j \in 1..(i - 1) : Offices[j].latitude # Offices[i].latitude

\* C21: when the geofence is configured, validateLocation at the centre of
\* a configured office admits the point with distance 0 and the name of
\* that office, the first in configured order of the offices that share
\* the centre.
C21_CentreAdmits ==
  (Validated /\ GeofenceConfigured /\ OnMeridian)
    => \A i \in 1..Len(Offices) :
         AtCentre(i)
           => /\ locationValidation.isValid
              /\ locationValidation.distance = Num(0)
              /\ locationValidation.name = Offices[i].name

\* the centre two offices share is admitted under the name of the first
C21_Witness ==
  /\ Validated /\ GeofenceConfigured /\ OnMeridian /\ Len(Offices) >= 2
  /\ Offices[1].latitude = Offices[2].latitude /\ AtCentre(1)
  /\ locationValidation.isValid
  /\ locationValidation.distance = Num(0)
  /\ locationValidation.name = Offices[1].name

\* the entries the handler of req logged for mask(token)
MaskedTokens == {en.value : en \in {x \in log : x.label = "token"}}

\* C22: what a handler logs as mask(token) for a token that is a string is
\* the empty string for no token or an empty one, "****" for a token of 1
\* to 8 characters, and for a longer token 11 characters: its first four,
\* three dots and its last four.
C22_MaskShape ==
  (Handled /\ ~IsNumber(creds.token))
    => \A m \in MaskedTokens :
         /\ ~Truthy(creds.token) => m = << >>
         /\ (Truthy(creds.token) /\ Len(creds.token) <= 8)
              => m = <<"*", "*", "*", "*">>
         /\ (Truthy(creds.token) /\ Len(creds.token) > 8)
              => /\ Len(m) = 11
                 /\ \A k \in 1..4 : m[k] = creds.token[k]
                 /\ \A k \in 5..7 : m[k] = "."
                 /\ \A k \in 8..11 : m[k] = creds.token[Len(creds.token) - 11 + k]

\* a token of nine characters is logged with its fifth character hidden
C22_Witness ==
  /\ Handled /\ Len(creds.token) = 9 /\ ~IsNumber(creds.token)
  /\ MaskedTokens = {<<"a", "b", "c", "d", ".", ".", ".", "f", "g", "h", "i">>}

\* C23: no step of the server changes the configuration: LOCATION_CONFIG,
\* the environment the offices are read from and the list of offices
\* validateLocation walks stay what they were when the process started.
C23_ConfigurationIsFrozen ==
  [][/\ LOCATION_CONFIG' = LOCATION_CONFIG
     /\ env' = env
     /\ Locations(version', LOCATION_CONFIG', env')
          = Locations(version, LOCATION_CONFIG, env)]_vars

\* a point was admitted and the configuration is the one of the start
C23_Witness ==
  /\ phase = "done" /\ Validated /\ locationValidation.isValid
  /\ locationValidation.name \in OfficeNames
  /\ LOCATION_CONFIG = LocationConfig(version, env)

\* office i is at the smallest distance from the point, no office before
\* it is, and another office is at the same distance
FirstOfTie(i) ==
  /\ \A j \in 1..Len(Offices) : OfficeDistance(i).v <= OfficeDistance(j).v
  /\ \A j \in 1..(i - 1) : OfficeDistance(i).v < OfficeDistance(j).v
  /\ \E j \in 1..Len(Offices) : j # i /\ OfficeDistance(j) = OfficeDistance(i)

\* C24: when validateLocation rejects a point and two or more offices are
\* at the same smallest distance from it, closestLocation is the first of
\* them in configured order and allowedRadius is its radius.
C24_TieGoesToFirst ==
  (Validated /\ ~locationValidation.isValid /\ NumericPoint /\ OnMeridian)
    => \A i \in 1..Len(Offices) :
         FirstOfTie(i)
           => /\ locationValidation.name = Offices[i].name
              /\ locationValidation.allowedRadius = Offices[i].radius
              /\ locationValidation.distance = Round(OfficeDistance(i))

\* a rejected point half way between two offices with different centres
C24_Witness ==
  /\ Validated /\ ~locationValidation.isValid /\ NumericPoint /\ OnMeridian
  /\ Len(Offices) >= 2 /\ FirstOfTie(1)
  /\ OfficeDistance(2) = OfficeDistance(1)
  /\ Offices[1].latitude # Offices[2].latitude
  /\ locationValidation.name = Offices[1].name

\* C25: every request gets exactly one response: none while its handler
\* awaits the upstream, one when the handler has finished, on every path
\* (authorization failure, missing location, geofence rejection, missing
\* upstream URL, upstream success, upstream failure, mock, exception).
C25_ExactlyOneResponse ==
  /\ responses <= 1
  /\ phase \in {"awaiting", "settled"} => responses = 0
  /\ phase = "done" => responses = 1 /\ resp # NoResp
  /\ phase = "idle" => responses = 0

\* the upstream call of a punch-in failed and the request was answered once
C25_Witness ==
  /\ phase = "done" /\ req.endpoint = "punchIn" /\ calls = 1
  /\ answer = Rejection /\ resp.status = 500 /\ responses = 1

\* C26: punch-in checks the token, then the presence of the coordinates,
\* then the geofence, and only then calls the upstream: a request without
\* a token is answered 401 whatever its coordinates, a request with a
\* token and an absent coordinate is answered 400 without validateLocation
\* being called, and an upstream punch-in request is issued only after
\* validateLocation admitted the coordinates of that request.
C26_PunchInCheckOrder ==
  (Handled /\ req.endpoint = "punchIn")
    => /\ ~Truthy(creds.token)
            => /\ resp.status = 401
               /\ locationValidation = NoValidation /\ calls = 0
       /\ (/\ Truthy(creds.token)
           /\ (req.latitude.k = "undefined" \/ req.longitude.k = "undefined"))
            => /\ resp.status = 400
               /\ locationValidation = NoValidation /\ calls = 0
       /\ upstream.target = "punchIn"
            => /\ locationValidation.isValid
               /\ locationValidation =
                    validateLocation(version, LOCATION_CONFIG, env,
                                     req.latitude, req.longitude)

\* a request with a token and admitted coordinates went upstream
C26_Witness ==
  /\ Handled /\ req.endpoint = "punchIn" /\ Truthy(creds.token)
  /\ upstream.target = "punchIn" /\ calls = 1
  /\ locationValidation.isValid /\ locationValidation.name \in OfficeNames

\* C27: the coordinates of an upstream punch-in request denote the numeric
\* point validateLocation admitted: the numbers arithmetic makes of the
\* values validateLocation was given are the numbers sent upstream.
C27_ForwardedPointIsAdmittedPoint ==
  (/\ Handled /\ req.endpoint = "punchIn" /\ upstream.target = "punchIn"
   /\ Validated /\ locationValidation.isValid)
    => /\ ToNumber(upstream.latitude) = ToNumber(req.latitude)
       /\ ToNumber(upstream.longitude) = ToNumber(req.longitude)

\* revision 2 admitted a pair of numbers and sent the same pair upstream
C27_Witness ==
  /\ Handled /\ req.endpoint = "punchIn" /\ upstream.target = "punchIn"
  /\ version = 2 /\ Validated /\ locationValidation.isValid
  /\ req.latitude.k = "number" /\ upstream.latitude = req.latitude
  /\ upstream.longitude = JNumber(Meridian)

\* C28: a punch-in request with a token whose latitude and longitude are
\* both numbers is never answered with the missing-location failure; a
\* latitude 0 or a longitude 0 is present and goes on to the geofence.
C28_ZeroIsPresent ==
  (/\ Handled /\ req.endpoint = "punchIn"
   /\ Truthy(creds.token) /\ ~IsNumber(creds.token)
   /\ req.latitude.k = "number" /\ req.longitude.k = "number")
    => /\ resp.kind # "MissingLocation"
       /\ version # 3 => locationValidation # NoValidation

\* a pair of non-zero numbers reached validateLocation
C28_Witness ==
  /\ Handled /\ req.endpoint = "punchIn" /\ Truthy(creds.token)
  /\ req.latitude = JNumber(1) /\ req.longitude = JNumber(Meridian)
  /\ Validated /\ resp.kind # "MissingLocation"

\* C29: whenever validateLocation rejects the coordinates of a punch-in
\* request and at least one office is configured, closestLocation is the
\* name of a configured office, allowedRadius is the radius of that office
\* and the distance is a finite number.
C29_RejectedNamesAnOffice ==
  (/\ Validated /\ req.endpoint = "punchIn"
   /\ ~locationValidation.isValid /\ Len(Offices) > 0)
    => /\ \E i \in 1..Len(Offices) :
            /\ locationValidation.name = Offices[i].name
            /\ locationValidation.allowedRadius = Offices[i].radius
       /\ locationValidation.name # "Unknown"
       /\ locationValidation.distance.k = "num"

\* a pair of numbers outside every office is rejected with the last office
\* as the closest one
C29_Witness ==
  /\ Validated /\ req.endpoint = "punchIn" /\ NumericPoint
  /\ ~locationValidation.isValid /\ Len(Offices) >= 2
  /\ locationValidation.name = Offices[Len(Offices)].name
  /\ locationValidation.allowedRadius = Offices[Len(Offices)].radius
  /\ locationValidation.distance.k = "num"

\* a result of validateLocation for a positive radius; its distance is in
\* metres and its allowedRadius in half metres
Decided == Validated /\ locationValidation.allowedRadius > 0

\* C30 as stated: in every admitted result the rounded distance is at most
\* allowedRadius and in every rejected result it is greater than
\* allowedRadius, for every positive radius, whole or not.
C30_RoundedAgreesWithRadius ==
  Decided
    => IF locationValidation.isValid
       THEN Le(Num(2 * locationValidation.distance.v),
               Num(locationValidation.allowedRadius))
       ELSE \/ locationValidation.distance = Infinity
            \/ Lt(Num(locationValidation.allowedRadius),
                  Num(2 * locationValidation.distance.v))

\* C30: the decision is taken on the distance before rounding, so the
\* reported distance agrees with the radius up to rounding: in every
\* admitted result the rounded distance is at most the rounded
\* allowedRadius, in every rejected result it is at least the rounded
\* allowedRadius.
C30_RoundedWithinRoundedRadius ==
  Decided
    => IF locationValidation.isValid
       THEN Le(locationValidation.distance, Round(Num(locationValidation.allowedRadius)))
       ELSE Le(Round(Num(locationValidation.allowedRadius)), locationValidation.distance)

\* a point outside an office is rejected with a rounded distance that
\* equals the rounded radius
C30_Witness ==
  /\ Decided /\ NumericPoint /\ ~locationValidation.isValid
  /\ locationValidation.name \in OfficeNames
  /\ locationValidation.distance = Round(Num(locationValidation.allowedRadius))

=============================================================================
